---- MODULE Spec2Model ----
(***************************************************************************)
(* A model of the request scheduler (utils/rate-limiter.ts and             *)
(* utils/roam-api-wrapper.ts) and of the indented hierarchy traversal      *)
(* (search/indented-hierarchy-search.ts and its two other revisions).      *)
(*                                                                         *)
(* Spec      the scheduler: calls submitted through the wrapper's          *)
(*           schedule() on the global limiter or on a chained tool         *)
(*           limiter, and the hierarchy handler's queries, under a clock.  *)
(* SpecTree  one execute() of the hierarchy handler on a remote graph.     *)
(***************************************************************************)
EXTENDS Integers, Sequences, FiniteSets, TLC

\* ------------------------------------------------------------------ bounds
\* Calls submitted concurrently.
NCalls == 2
\* Tool limiters built by createToolLimiter().
NToolLimiters == 2
\* The clock stops advancing past this many milliseconds.
MaxTime == 63000
\* The modelled calls may start in a window whose reservoir earlier calls
\* have already drawn down to 0..MaxLowReservoir.
MaxLowReservoir == 1

\* Blocks of the remote graph, 1..NBlocks; block 1 is the anchor's block.
NBlocks == 9
\* Blocks 2..BranchUpTo hang under any of the (up to three) blocks before
\* them; the later ones continue a chain.
BranchUpTo == 4
\* The requested max_depth ranges over -NegDepths..MaxDepthArg.
NegDepths == 1
MaxDepthArg == 9
\* Texts handed to splitTextIntoParts on its own have at most this many runs.
MaxRuns == 4
\* The requested part ranges over 0..MaxPartArg.
MaxPartArg == 4
\* Characters of a block's content in a graph of long blocks.
LongBody == 1200
\* Page titles have at most this many characters, and the remote store at
\* most MaxPages pages.
MaxTitleLen == 2
MaxPages == 2
\* createPage is given at most this many content blocks.
MaxContent == 21

\* --------------------------------------------------------- program constants
\* rate-limiter.ts:3-8
RESERVOIR == 300
RESERVOIR_REFRESH_AMOUNT_none == 0 * 300
RESERVOIR_REFRESH_AMOUNT == 300
RESERVOIR_REFRESH_INTERVAL == 60000
MAX_CONCURRENT_two == 1 + 1
MAX_CONCURRENT == 1
\* minTime is not set by the constructor call: Bottleneck's default applies.
MIN_TIME == 0
\* roam-api-wrapper.ts:13,15
MAX_RETRIES_four == 5 - 1
MAX_RETRIES == 5
BASE_RETRY_DELAY == 2000

Calls == 1..NCalls
None == "none"
NoTime == 0 - 1

VARIABLES
  now,          \* the clock, in ms
  reservoir,    \* globalLimiter: remaining reservoir
  nextRefresh,  \* globalLimiter: when the refresh timer next refills
  queue,        \* globalLimiter: queued jobs, in submission order
  running,      \* globalLimiter: jobs executing (their fn is in flight)
  call,         \* per call: the frame of schedule() (or of the handler's q)
  hist,         \* observations of the limiter's dispatches
  graph,        \* the remote graph one execute() runs against
  req,          \* the handler's params, and which revision of it runs
  h,            \* the frame of execute()
  res           \* what execute() returned

schedVars == <<now, reservoir, nextRefresh, queue, running, call, hist>>
treeVars == <<graph, req, h, res>>
vars == <<now, reservoir, nextRefresh, queue, running, call, hist,
          graph, req, h, res>>

\* ------------------------------------------------------------ pure helpers
RECURSIVE Pow2(_)
Pow2(n) == IF n <= 0 THEN 1 ELSE 2 * Pow2(n - 1)

\* String.prototype.includes on a message, a message being its words.
Includes(s, p) ==
  \E i \in 1..(Len(s) - Len(p) + 1) : SubSeq(s, i, i + Len(p) - 1) = p

\* What an underlying call may reject with: Error objects with a message, and
\* a thrown value that is no Error (a string), which has no message.
Messages ==
  { <<"Too", "many", "requests", "-", "try", "later">>,
    <<"API", "rate", "limit", "exceeded">>,
    <<"Rate", "limit">>,
    <<"Network", "error">> }
Thrown ==
  { [isError |-> TRUE, msg |-> m] : m \in Messages }
    \cup { [isError |-> FALSE, msg |-> <<>>] }
\* A thrown value as a caller observes it: with the attempt that threw it, and
\* the message of the error it wraps, if it wraps one.
Observed(e, attempt) ==
  [isError |-> e.isError, msg |-> e.msg, at |-> attempt, wraps |-> <<>>]
\* lastError = null
NoError == [isError |-> FALSE, msg |-> <<>>, at |-> NoTime, wraps |-> <<>>]
\* How a call settled: not yet, with the underlying call's value, or throwing.
Pending == [kind |-> "pending", err |-> NoError]
Returned == [kind |-> "value", err |-> NoError]
Threw(err) == [kind |-> "error", err |-> err]

\* The condition of the catch block of schedule().
IsRateLimitError_any(e) == e.isError
IsRateLimitError(e) ==
  /\ e.isError
  /\ \/ Includes(e.msg, <<"Too", "many", "requests">>)
     \/ Includes(e.msg, <<"rate", "limit">>)

\* delay = BASE_RETRY_DELAY * Math.pow(2, attempt)
BackoffDelay_linear(attempt) == BASE_RETRY_DELAY * (attempt + 1)
BackoffDelay(attempt) == BASE_RETRY_DELAY * Pow2(attempt)

\* ----------------------------------------------------------- the scheduler
\* Who submits a call: the wrapper's schedule() with limiter null (0, the
\* global limiter) or with tool limiter 1..NToolLimiters; or the hierarchy
\* handler, whose q is the SDK's own.
Limiters == 0..NToolLimiters

\* indented-hierarchy-search.ts:1  import { q } from '@roam-research/roam-api-sdk'
HandlerRoute_wrapper == "wrapper"
HandlerRoute == "sdk"

IdleCall ==
  [route |-> None, limiter |-> 0, pc |-> "idle", attempt |-> 0,
   lastError |-> NoError, fails |-> 0, quotaFails |-> 0, delays |-> <<>>,
   wake |-> NoTime, tries |-> 0, outcome |-> Pending]

NoGraph == [parent |-> <<>>, order |-> <<>>, retDesc |-> FALSE,
            keys |-> None, body |-> None]
NoReq == [rev |-> None, parent_uid |-> 0, child_uid |-> 0, max_depth |-> 1,
          part |-> 1, page_title_uid |-> FALSE]
NoFrame == [pc |-> "idle"]
NoResult == [kind |-> "pending"]

Init ==
  /\ graph = NoGraph /\ req = NoReq /\ h = NoFrame /\ res = NoResult
  /\ now = 0
  /\ reservoir \in {RESERVOIR} \cup (0..MaxLowReservoir)
  /\ nextRefresh = RESERVOIR_REFRESH_INTERVAL
  /\ queue = <<>>
  /\ running = {}
  /\ call = [c \in Calls |-> IdleCall]
  /\ hist = [dispatched |-> 0, window |-> RESERVOIR - reservoir,
             lastJob |-> 0, lastStart |-> NoTime]

\* Calls are numbered in the order they are submitted.
IsNextCall(c) ==
  /\ call[c].pc = "idle"
  /\ \A d \in Calls : d < c => call[d].pc # "idle"

\* l.schedule(fn): a job on the global limiter is queued there; a job on a
\* tool limiter is accepted by it, and reaches the global queue when the tool
\* limiter runs it (limiter.chain(globalLimiter)).
LimiterSchedule(c, l, cr) ==
  IF l = 0
    THEN /\ queue' = Append(queue, c)
         /\ call' = [call EXCEPT ![c] = [cr EXCEPT !.pc = "queued"]]
    ELSE /\ queue' = queue
         /\ call' = [call EXCEPT ![c] = [cr EXCEPT !.pc = "tool"]]

\* schedule(limiter, fn), up to the first l.schedule(fn).
Submit(c, l) ==
  /\ IsNextCall(c)
  /\ LimiterSchedule(c, l, [call[c] EXCEPT !.route = "wrapper", !.limiter = l])
  /\ UNCHANGED <<now, reservoir, nextRefresh, running, hist, treeVars>>

\* Where a job that a tool limiter runs goes: to the limiter it is chained to.
ChainTarget_none == "remote"
ChainTarget == "global"

\* A tool limiter has no limits of its own: it runs the job at once, and the
\* job is globalLimiter.schedule(fn).
ToolRun(c) ==
  /\ call[c].pc = "tool"
  /\ IF ChainTarget = "global"
       THEN /\ queue' = Append(queue, c)
            /\ call' = [call EXCEPT ![c].pc = "queued"]
       ELSE /\ queue' = queue
            /\ call' = [call EXCEPT ![c].pc = "running", ![c].tries = @ + 1]
  /\ UNCHANGED <<now, reservoir, nextRefresh, running, hist, treeVars>>

\* The remote calls in flight, and those among them the wrapper submitted.
InFlight == {c \in Calls : call[c].pc = "running"}
WrapperInFlight == {c \in InFlight : call[c].route = "wrapper"}

\* The global limiter starts its first queued job when a slot is free, the
\* reservoir holds the job's weight (1) and minTime has passed.
CanDispatch_noReservoir ==
  /\ queue # <<>>
  /\ Cardinality(running) < MAX_CONCURRENT
CanDispatch_noSlot ==
  /\ queue # <<>>
  /\ reservoir >= 1
CanDispatch ==
  /\ queue # <<>>
  /\ Cardinality(running) < MAX_CONCURRENT
  /\ reservoir >= 1
  /\ hist.lastStart = NoTime \/ now >= hist.lastStart + MIN_TIME

Dispatch ==
  /\ CanDispatch
  /\ LET c == Head(queue) IN
       /\ queue' = Tail(queue)
       /\ running' = running \cup {c}
       /\ reservoir' = reservoir - 1
       /\ call' = [call EXCEPT ![c].pc = "running", ![c].tries = @ + 1]
       /\ hist' = [hist EXCEPT !.dispatched = @ + 1, !.window = @ + 1,
                               !.lastJob = c, !.lastStart = now]
  /\ UNCHANGED <<now, nextRefresh, treeVars>>

\* The hierarchy handler's q(graph, query, params): the call goes out at once.
HandlerQuery(c) ==
  /\ IsNextCall(c)
  /\ IF HandlerRoute = "wrapper"
       THEN LimiterSchedule(c, 0, [call[c] EXCEPT !.route = "wrapper"])
       ELSE /\ call' = [call EXCEPT ![c].route = "sdk", ![c].pc = "running",
                                    ![c].tries = @ + 1]
            /\ queue' = queue
  /\ UNCHANGED <<now, reservoir, nextRefresh, running, hist, treeVars>>

\* The limiter's job is the one call fn(): when it settles, the limiter has
\* its slot back, whatever schedule() does next.
Release_held(c) == running
Release(c) == running \ {c}

\* The underlying call resolves: return await l.schedule(fn).
Succeed(c) ==
  /\ call[c].pc = "running"
  /\ running' = Release(c)
  /\ call' = [call EXCEPT ![c].pc = "resolved",
                          ![c].outcome = Returned]
  /\ UNCHANGED <<now, reservoir, nextRefresh, queue, hist, treeVars>>

\* The underlying call rejects with e. In schedule() the catch block keeps
\* it as lastError and either starts the backoff timer or rethrows; the
\* handler's direct call has no catch block of the scheduler around it.
Fail(c, e) ==
  /\ call[c].pc = "running"
  /\ running' = Release(c)
  /\ LET cr   == call[c]
         err  == Observed(e, cr.attempt)
         seen == [cr EXCEPT !.lastError = err, !.fails = @ + 1]
     IN  call' = [call EXCEPT ![c] =
           IF cr.route = "sdk" THEN
             [seen EXCEPT !.pc = "rejected", !.outcome = Threw(err)]
           ELSE IF IsRateLimitError(e) THEN
             [seen EXCEPT !.pc = "backoff",
                          !.quotaFails = @ + 1,
                          !.delays = Append(@, BackoffDelay(cr.attempt)),
                          !.wake = now + BackoffDelay(cr.attempt)]
           ELSE
             [seen EXCEPT !.pc = "rejected", !.outcome = Threw(err)]]
  /\ UNCHANGED <<now, reservoir, nextRefresh, queue, hist, treeVars>>

\* The error schedule() throws when the attempts are used up:
\* throw lastError || new Error('Failed after maximum retry attempts').
Exhausted_wrapped(cr) ==
  [isError |-> TRUE, msg |-> <<"Retries", "exhausted">>,
   at |-> cr.lastError.at, wraps |-> cr.lastError.msg]
Exhausted(cr) ==
  IF cr.lastError # NoError THEN cr.lastError
  ELSE [isError |-> TRUE, at |-> cr.attempt - 1, wraps |-> <<>>,
        msg |-> <<"Failed", "after", "maximum", "retry", "attempts">>]

\* The backoff timer fires: attempt++, and the loop either schedules the
\* next attempt or ends, and schedule() throws.
Wake(c) ==
  /\ call[c].pc = "backoff"
  /\ now >= call[c].wake
  /\ LET cr == [call[c] EXCEPT !.attempt = @ + 1, !.wake = NoTime] IN
       IF cr.attempt < MAX_RETRIES
         THEN LimiterSchedule(c, cr.limiter, cr)
         ELSE /\ call' = [call EXCEPT ![c] =
                   [cr EXCEPT !.pc = "rejected",
                               !.outcome = Threw(Exhausted(cr))]]
              /\ queue' = queue
  /\ UNCHANGED <<now, reservoir, nextRefresh, running, hist, treeVars>>

\* The reservoir refresh timer.
Refresh ==
  /\ now >= nextRefresh
  /\ reservoir' = RESERVOIR_REFRESH_AMOUNT
  /\ nextRefresh' = nextRefresh + RESERVOIR_REFRESH_INTERVAL
  /\ hist' = [hist EXCEPT !.window = 0]
  /\ UNCHANGED <<now, queue, running, call, treeVars>>

\* Time passes, up to the next timer.
Deadlines == {call[c].wake : c \in {d \in Calls : call[d].pc = "backoff"}}
               \cup {nextRefresh}
Advance ==
  /\ \A d \in Deadlines : d > now
  /\ \E t \in Deadlines :
       /\ \A d \in Deadlines : t <= d
       /\ t <= MaxTime
       /\ now' = t
  /\ UNCHANGED <<reservoir, nextRefresh, queue, running, call, hist, treeVars>>

Next ==
  \/ \E c \in Calls, l \in Limiters : Submit(c, l)
  \/ \E c \in Calls : HandlerQuery(c)
  \/ \E c \in Calls : ToolRun(c)
  \/ Dispatch
  \/ \E c \in Calls : Succeed(c)
  \/ \E c \in Calls, e \in Thrown : Fail(c, e)
  \/ \E c \in Calls : Wake(c)
  \/ Refresh
  \/ Advance

Spec == Init /\ [][Next]_vars

\* ------------------------------------------------- the hierarchy traversal
Blocks == 1..NBlocks
\* A uid that no block has; 0 stands for a uid that was not supplied.
Missing == NBlocks + 1
DepthArgs == (0 - NegDepths)..MaxDepthArg

\* The three revisions of IndentedHierarchyHandler in the repository:
\*   "main"    search/indented-hierarchy-search.ts (nested pull, cast)
\*   "norm"    unnamed/part_002 (nested pull, normalizeBlock)
\*   "levels"  unnamed/part_001 (level by level)
Revisions == {"main", "norm", "levels"}

\* const effectiveMaxDepth = Math.min(max_depth, 7)   (part_001: 5)
DEPTH_CEILING == 7
DEPTH_CEILING_LEVELS == 5
Ceiling(rev) == IF rev = "levels" THEN DEPTH_CEILING_LEVELS ELSE DEPTH_CEILING
Min(a, b) == IF a <= b THEN a ELSE b
EffectiveMaxDepth(rev, max_depth) == Min(max_depth, Ceiling(rev))

\* ---- the remote graph
\* Block 1 has no parent block; blocks 2..BranchUpTo hang under one of the
\* three blocks before them, the rest continue a chain.
ShapeOf(c) ==
  [i \in Blocks |->
     IF i = 1 THEN 0
     ELSE IF i <= BranchUpTo THEN (IF i - c[i] >= 1 THEN i - c[i] ELSE 1)
     ELSE i - 1]
Shapes == {ShapeOf(c) : c \in [2..BranchUpTo -> 1..3]}
\* :block/order of each block: ascending or descending with the uid, or
\* alternating 0, 1 (siblings may then share an order).
OrderPatterns == {"asc", "desc", "parity"}
OrderBy(pat) ==
  [i \in Blocks |->
     IF pat = "asc" THEN i ELSE IF pat = "desc" THEN NBlocks - i ELSE i % 2]
\* The keys of a pull result: ":block/string", ... (as RawBlock of part_002
\* declares them) or string, ... (as the cast to BlockNode of the main
\* revision takes them to be).
KeyShapes == {"namespaced", "plain"}
\* What resolveRefs makes of the blocks' strings: one character each, long
\* contents, or contents of two lines.
BodyPatterns == {"short", "long", "multiline"}
Graphs ==
  { [parent |-> sh, order |-> OrderBy(pat), retDesc |-> rd, keys |-> k,
     body |-> bp] :
      sh \in Shapes, pat \in OrderPatterns, rd \in BOOLEAN, k \in KeyShapes,
      bp \in BodyPatterns }

RECURSIVE AscSeq(_)
AscSeq(S) ==
  IF S = {} THEN <<>>
  ELSE LET m == CHOOSE x \in S : \A y \in S : x <= y
       IN  <<m>> \o AscSeq(S \ {m})
Reverse(s) == [i \in 1..Len(s) |-> s[Len(s) + 1 - i]]

\* The children of block u in the order the remote store returns them
\* (a query's rows and a pull's :block/children come in no promised order).
ChildRows(u) ==
  LET asc == AscSeq({c \in Blocks : graph.parent[c] = u})
  IN  IF graph.retDesc THEN Reverse(asc) ELSE asc
\* :block/string of block u.
Str(u) == <<"s", u>>
\* resolveRefs(graph, text), of tools/helpers/refs: some transform of the text.
ResolveRefs(text) == <<"r">> \o text

\* ---- the nested pull
\* buildPullPattern(depth): how many nested attribute lists the pattern has.
RECURSIVE PullLoop(_, _)
PullLoop(currentDepth, depth) ==
  IF currentDepth > depth THEN 0
  ELSE IF currentDepth < depth THEN 1 + PullLoop(currentDepth + 1, depth)
  ELSE 1
BuildPullPattern(depth) == IF depth > 1 THEN 1 + PullLoop(2, depth) ELSE 1

\* (pull ?b pattern) on block u: the block and, down to the pattern's last
\* level, its children.
RECURSIVE PullNode(_, _, _)
PullNode(u, level, levels) ==
  LET kids == IF level < levels THEN ChildRows(u) ELSE <<>>
  IN  [keys |-> graph.keys, uid |-> u, string |-> Str(u),
       order |-> graph.order[u],
       children |-> [i \in 1..Len(kids) |->
                       PullNode(kids[i], level + 1, levels)]]

\* A block as processTree reads it: .uid, .string, .order, .children; id
\* names the block the object came from. An absent string reads as "" (<<>>).
Unread(raw) ==
  [id |-> raw.uid, uid |-> 0, string |-> <<>>, order |-> 0,
   hasOrder |-> FALSE, children |-> <<>>]
\* part_002: normalizeBlock(raw), reading the ":block/..." keys.
RECURSIVE NormalizeBlock(_)
NormalizeBlock(raw) ==
  IF raw.keys = "namespaced"
    THEN [id |-> raw.uid, uid |-> raw.uid, string |-> raw.string,
          order |-> raw.order, hasOrder |-> TRUE,
          children |-> [i \in 1..Len(raw.children) |->
                          NormalizeBlock(raw.children[i])]]
    ELSE [Unread(raw) EXCEPT !.hasOrder = TRUE]
\* main revision: result as BlockNode, reading .string, .order, .children.
RECURSIVE CastBlockNode(_)
CastBlockNode(raw) ==
  IF raw.keys = "plain"
    THEN [id |-> raw.uid, uid |-> raw.uid, string |-> raw.string,
          order |-> raw.order, hasOrder |-> TRUE,
          children |-> [i \in 1..Len(raw.children) |->
                          CastBlockNode(raw.children[i])]]
    ELSE Unread(raw)

\* [...blocks].sort((a, b) => orderA - orderB), an absent order being 0:
\* Array.prototype.sort is stable.
OrderOf(b) == IF b.hasOrder THEN b.order ELSE 0
InsertByOrder(s, b) ==
  LET k == Cardinality({i \in 1..Len(s) : OrderOf(s[i]) <= OrderOf(b)})
  IN  SubSeq(s, 1, k) \o <<b>> \o SubSeq(s, k + 1, Len(s))
SortByOrder_unsorted(blocks) == blocks
RECURSIVE SortByOrder(_)
SortByOrder(blocks) ==
  IF blocks = <<>> THEN <<>>
  ELSE InsertByOrder(SortByOrder(SubSeq(blocks, 1, Len(blocks) - 1)),
                     blocks[Len(blocks)])

NoLines == [lines |-> <<>>, total |-> 0, events |-> <<>>]
\* The calls of the reference resolver and the lines appended to the text,
\* in the order they happen: <<"resolve", id>> and <<"emit", id>>.
\* Promise.all(blocks.map(block => resolveRefs(...))): one call per block.
ResolveAll_twice(ids) ==
  [i \in 1..(2 * Len(ids)) |-> <<"resolve", ids[(i + 1) \div 2]>>]
ResolveAll(ids) == [i \in 1..Len(ids) |-> <<"resolve", ids[i]>>]
Emits(lines) == [i \in 1..Len(lines) |-> <<"emit", lines[i].id>>]
\* The calls after which a rejected Promise.all leaves the traversal: the
\* last call of each batch.
BatchEnds(events) ==
  { i \in 1..Len(events) :
      /\ events[i][1] = "resolve"
      /\ (i = Len(events) \/ events[i + 1][1] # "resolve") }
\* `${indent}- ${content}\n`, indent being `indent` times two spaces.
Line(indent, id, content) ==
  [indent |-> indent, id |-> id, content |-> content]

\* processTree(blocks, level, maxDepth, indent)
RECURSIVE ProcessTree(_, _, _, _)
RECURSIVE ProcessFrom(_, _, _, _, _)
ProcessTree(blocks, level, maxDepth, indent) ==
  IF Len(blocks) = 0 \/ level > maxDepth THEN NoLines
  ELSE LET sorted == SortByOrder(blocks)
           r      == ProcessFrom(sorted, 1, level, maxDepth, indent)
       IN  [r EXCEPT !.events =
              ResolveAll([i \in 1..Len(sorted) |-> sorted[i].id]) \o @]
ProcessFrom(sorted, i, level, maxDepth, indent) ==
  IF i > Len(sorted) THEN NoLines
  ELSE LET b    == sorted[i]
           sub  == IF Len(b.children) > 0 /\ level < maxDepth
                     THEN ProcessTree(b.children, level + 1, maxDepth,
                                      indent + 1)
                     ELSE NoLines
           rest == ProcessFrom(sorted, i + 1, level, maxDepth, indent)
       IN  [lines |-> <<Line(indent, b.id, ResolveRefs(b.string))>>
                        \o sub.lines \o rest.lines,
            total |-> 1 + sub.total + rest.total,
            events |-> <<<<"emit", b.id>>>> \o sub.events \o rest.events]

\* processTree([result], 1, ...) in the main revision, ([rootBlock], 0, ...)
\* in part_002.
FirstLevel(rev) == IF rev = "main" THEN 1 ELSE 0

\* ---- the level-by-level revision
\* A row [uid, content, order] of the children query as a HierarchyNode.
RowNode(u) ==
  [id |-> u, uid |-> u, string |-> Str(u), order |-> graph.order[u],
   hasOrder |-> TRUE, children |-> <<>>]
Uids(nodes) == [i \in 1..Len(nodes) |-> nodes[i].uid]
\* children.map(...) and childNodes.sort((a, b) => a.order - b.order)
SortedChildren(u) ==
  Uids(SortByOrder([i \in 1..Len(ChildRows(u)) |-> RowNode(ChildRows(u)[i])]))

\* generateIndentedList(nodes, level) over the children lists built so far.
RECURSIVE GenerateIndentedList(_, _, _)
GenerateIndentedList(kids, nodes, level) ==
  IF nodes = <<>> THEN <<>>
  ELSE LET u == Head(nodes) IN
         <<Line(level, u, ResolveRefs(Str(u)))>>
           \o (IF Len(kids[u]) > 0
                 THEN GenerateIndentedList(kids, kids[u], level + 1)
                 ELSE <<>>)
           \o GenerateIndentedList(kids, Tail(nodes), level)
RECURSIVE CountNodes(_, _)
RECURSIVE CountAll(_, _)
CountNodes(kids, u) == 1 + CountAll(kids, kids[u])
CountAll(kids, nodes) ==
  IF nodes = <<>> THEN 0
  ELSE CountNodes(kids, Head(nodes)) + CountAll(kids, Tail(nodes))

\* ---- texts
\* A text is a sequence of runs [c, n]: the character c repeated n >= 1
\* times, neighbouring runs of different characters. Indexes are 0-based
\* character indexes, as in the code.
NL == "\n"
Run(c, n) == [c |-> c, n |-> n]
RECURSIVE TLen(_)
TLen(t) == IF t = <<>> THEN 0 ELSE t[1].n + TLen(Tail(t))
\* a + b
Cat(a, b) ==
  IF a = <<>> THEN b
  ELSE IF b = <<>> THEN a
  ELSE IF a[Len(a)].c = b[1].c
    THEN SubSeq(a, 1, Len(a) - 1)
           \o <<Run(b[1].c, a[Len(a)].n + b[1].n)>>
           \o Tail(b)
    ELSE a \o b
RECURSIVE Join(_)
Join(parts) == IF parts = <<>> THEN <<>> ELSE Cat(Head(parts), Join(Tail(parts)))
\* text.substring(0, k)
RECURSIVE Take(_, _)
Take(t, k) ==
  IF k <= 0 \/ t = <<>> THEN <<>>
  ELSE IF t[1].n <= k THEN <<t[1]>> \o Take(Tail(t), k - t[1].n)
  ELSE <<Run(t[1].c, k)>>
\* text.substring(k)
RECURSIVE Drop(_, _)
Drop(t, k) ==
  IF k <= 0 \/ t = <<>> THEN t
  ELSE IF t[1].n <= k THEN Drop(Tail(t), k - t[1].n)
  ELSE <<Run(t[1].c, t[1].n - k)>> \o Tail(t)
\* Index of the first character of run i.
RECURSIVE RunStart(_, _)
RunStart(t, i) == IF i <= 1 THEN 0 ELSE RunStart(t, i - 1) + t[i - 1].n
\* text.lastIndexOf(ch, fromIndex): the last index <= fromIndex holding ch,
\* or -1.
LastIndexOf(t, ch, fromIndex) ==
  LET hits == { Min(RunStart(t, i) + t[i].n - 1, fromIndex) :
                  i \in {j \in 1..Len(t) :
                           t[j].c = ch /\ RunStart(t, j) <= fromIndex} }
  IN  IF hits = {} THEN -1 ELSE CHOOSE m \in hits : \A x \in hits : x <= m
\* Character at index k (k < length).
CharAt(t, k) == Take(Drop(t, k), 1)[1].c

\* ---- splitTextIntoParts
\* maxSize: number = 5000 (part_002: 10000); the results longer than the
\* same number are the ones split.
SPLIT_MAX_SIZE == 5000
SPLIT_MAX_SIZE_NORM == 10000
MaxSizeOf(rev) == IF rev = "norm" THEN SPLIT_MAX_SIZE_NORM ELSE SPLIT_MAX_SIZE
\* cutPoint: the last newline at or before maxSize, unless there is none or
\* it lies before maxSize * 0.8 (for both sizes 0.8 * maxSize is the exact
\* integer 4 * maxSize / 5).
CutPoint_hard(remainingText, maxSize) == maxSize
CutPoint(remainingText, maxSize) ==
  LET cutPoint == LastIndexOf(remainingText, NL, maxSize)
  IN  IF cutPoint = -1 \/ 5 * cutPoint < 4 * maxSize THEN maxSize
      ELSE cutPoint
\* parts.push(remainingText.substring(0, cutPoint))
SplitHead(remainingText, cutPoint) == Take(remainingText, cutPoint)
\* remainingText = remainingText.substring(cutPoint)
SplitRest_skip(remainingText, cutPoint) == Drop(remainingText, cutPoint + 1)
SplitRest(remainingText, cutPoint) == Drop(remainingText, cutPoint)
RECURSIVE SplitLoop(_, _, _)
SplitLoop(remainingText, maxSize, parts) ==
  IF TLen(remainingText) = 0 THEN parts
  ELSE IF TLen(remainingText) <= maxSize THEN Append(parts, remainingText)
  ELSE LET cutPoint == CutPoint(remainingText, maxSize) IN
         SplitLoop(SplitRest(remainingText, cutPoint), maxSize,
                   Append(parts, SplitHead(remainingText, cutPoint)))
SplitTextIntoParts(text, maxSize) == SplitLoop(text, maxSize, <<>>)

\* The texts splitTextIntoParts is run on by itself: up to MaxRuns runs,
\* newlines alternating with another character, the run lengths at and
\* around the sizes the function compares with.
RunLengths(c, maxSize) ==
  IF c = NL THEN {1, 2}
  ELSE {1, (4 * maxSize) \div 5 - 1, (4 * maxSize) \div 5,
        maxSize - 1, maxSize, maxSize + 1}
RunChar(first, i) == IF i % 2 = 1 THEN first ELSE IF first = NL THEN "x" ELSE NL
RECURSIVE TextsOf(_, _, _)
TextsOf(k, first, maxSize) ==
  IF k = 0 THEN {<<>>}
  ELSE { Append(t, Run(RunChar(first, k), n)) :
           t \in TextsOf(k - 1, first, maxSize),
           n \in RunLengths(RunChar(first, k), maxSize) }
SplitTexts(maxSize) ==
  UNION { TextsOf(k, first, maxSize) : k \in 0..MaxRuns, first \in {NL, "x"} }

\* A serialization of ScenarioLength characters: lines of w characters, the
\* newline included, or one line without a newline.
ScenarioLength == 12 * 1000
ScenarioWidths == {1000, 2400, 6000}
RECURSIVE LinesOf(_, _)
LinesOf(w, k) ==
  IF k = 0 THEN <<>>
  ELSE <<Run("x", w - 1), Run(NL, 1)>> \o LinesOf(w, k - 1)
ScenarioTexts ==
  { LinesOf(w, ScenarioLength \div w) : w \in ScenarioWidths }
    \cup {<<Run("x", ScenarioLength)>>}

InitSplit ==
  /\ \E maxSize \in {SPLIT_MAX_SIZE, SPLIT_MAX_SIZE_NORM} :
       \E text \in SplitTexts(maxSize) \cup ScenarioTexts :
         h = [pc |-> "loop", text |-> text, maxSize |-> maxSize,
              remainingText |-> text, parts |-> <<>>]
  /\ graph = NoGraph /\ req = NoReq /\ res = NoResult
  /\ now = 0 /\ reservoir = RESERVOIR
  /\ nextRefresh = RESERVOIR_REFRESH_INTERVAL
  /\ queue = <<>> /\ running = {}
  /\ call = [c \in Calls |-> IdleCall]
  /\ hist = [dispatched |-> 0, window |-> 0, lastJob |-> 0,
             lastStart |-> NoTime]

\* return parts
S_Return(parts) ==
  /\ h' = [h EXCEPT !.pc = "returned", !.parts = parts]
  /\ res' = [kind |-> "parts", parts |-> parts]
\* while (remainingText.length > 0) left with nothing remaining.
S_Empty ==
  /\ h.pc = "loop"
  /\ TLen(h.remainingText) = 0
  /\ S_Return(h.parts)
  /\ UNCHANGED <<graph, req, schedVars>>
\* if (remainingText.length <= maxSize): the last part, and break.
S_Last ==
  /\ h.pc = "loop"
  /\ TLen(h.remainingText) > 0
  /\ TLen(h.remainingText) <= h.maxSize
  /\ S_Return(Append(h.parts, h.remainingText))
  /\ UNCHANGED <<graph, req, schedVars>>
\* One cut: a part is pushed and the rest remains.
S_Cut ==
  /\ h.pc = "loop"
  /\ TLen(h.remainingText) > h.maxSize
  /\ LET cutPoint == CutPoint(h.remainingText, h.maxSize) IN
       h' = [h EXCEPT
               !.parts = Append(@, SplitHead(h.remainingText, cutPoint)),
               !.remainingText = SplitRest(h.remainingText, cutPoint)]
  /\ UNCHANGED <<graph, req, res, schedVars>>

NextSplit ==
  \/ S_Empty
  \/ S_Last
  \/ S_Cut

SpecSplit == InitSplit /\ [][NextSplit]_vars

\* ---- the serialization
\* The characters of a resolved content: of block u's string, or of "".
Body(u) ==
  IF graph.body = "long" THEN <<Run("x", LongBody)>>
  ELSE IF graph.body = "multiline" THEN <<Run("x", 1), Run(NL, 1), Run("x", 1)>>
  ELSE <<Run("x", 1)>>
CharsOf(content) == IF Len(content) = 3 THEN Body(content[3]) ELSE <<>>
\* `${indent}- ${content}\n`
Spaces(n) == IF n > 0 THEN <<Run(" ", n)>> ELSE <<>>
RenderLine(l) ==
  Cat(Cat(Cat(Spaces(2 * l.indent), <<Run("-", 1), Run(" ", 1)>>),
          CharsOf(l.content)),
      <<Run(NL, 1)>>)
RECURSIVE RenderText(_)
RenderText(lines) ==
  IF lines = <<>> THEN <<>>
  ELSE Cat(RenderLine(Head(lines)), RenderText(Tail(lines)))

\* if (indentedList.length > 5000)   (part_002: 10000)
SPLIT_OVER == 5000
SPLIT_OVER_NORM == 10000
SplitOver(rev) == IF rev = "norm" THEN SPLIT_OVER_NORM ELSE SPLIT_OVER
\* part_001: indentedList.substring(0, 4997) + "..." when over 5000.
TRUNCATE_OVER == 5000
TRUNCATE_KEEP == 4997
Truncate(text) ==
  IF TLen(text) > TRUNCATE_OVER
    THEN Cat(Take(text, TRUNCATE_KEEP), <<Run(".", 3)>>)
    ELSE text
Max(a, b) == IF a >= b THEN a ELSE b
\* Math.min(Math.max(1, part), totalParts)
RequestedPart_asked(part, totalParts) == part
RequestedPart(part, totalParts) == Min(Max(1, part), totalParts)
\* parts[i - 1]; undefined beyond the array.
Undefined == <<Run("undefined", 1)>>
PartAt(parts, i) == IF i \in 1..Len(parts) THEN parts[i] ELSE Undefined

\* ---- execute()
PartArgs == 0..MaxPartArg
\* The anchors of a request: <<parent_uid, child_uid>>, 0 for one not
\* supplied.
Anchors ==
  {<<0, 0>>, <<1, 0>>, <<Missing, 0>>, <<1, NBlocks>>,
   <<0, 1>>, <<0, 2>>, <<0, NBlocks>>, <<0, Missing>>}
\* page_title_uid: whether one is supplied.
Requests ==
  { [rev |-> r, parent_uid |-> a[1], child_uid |-> a[2], max_depth |-> d,
     part |-> p, page_title_uid |-> t] :
      r \in Revisions, a \in Anchors, d \in DepthArgs, p \in PartArgs,
      t \in BOOLEAN }
\* The part is read on split results only, which take long contents; the
\* order and the keys of the children are read in descendant mode only; a
\* page_title_uid comes with short contents.
Relevant(g, r) ==
  /\ r.part # 1 => g.body = "long"
  /\ r.page_title_uid => g.body = "short"
  /\ r.parent_uid = 0 => g.order = OrderBy("asc") /\ g.keys = "plain"

InitTree ==
  /\ graph \in Graphs
  /\ req \in Requests
  /\ Relevant(graph, req)
  /\ h = [pc |-> "start"]
  /\ res = NoResult
  /\ now = 0 /\ reservoir = RESERVOIR
  /\ nextRefresh = RESERVOIR_REFRESH_INTERVAL
  /\ queue = <<>> /\ running = {}
  /\ call = [c \in Calls |-> IdleCall]
  /\ hist = [dispatched |-> 0, window |-> 0, lastJob |-> 0,
             lastStart |-> NoTime]

Failure(msg) ==
  [kind |-> "failure", msg |-> msg, lines |-> <<>>, total |-> 0,
   content |-> <<>>, paginated |-> FALSE, total_parts |-> 0,
   current_part |-> 0]
\* message: `Block with UID ${uid} not found`
NotFound_error(uid) == Failure("error")
NotFound(uid) == Failure("notfound")
\* execute()'s promise rejected: an exception left execute().
Rejected == [Failure("thrown") EXCEPT !.kind = "rejected"]
\* totalBlocks, as the message reports it.
TotalBlocks_one(r) == 1
TotalBlocks(r) == r.total
\* A success with the whole (part_001: truncated) text as its content.
Whole(r, content) ==
  [kind |-> "success", msg |-> "found", lines |-> r.lines,
   total |-> TotalBlocks(r),
   content |-> content, paginated |-> FALSE, total_parts |-> 0,
   current_part |-> 0]
\* The end of execute(): the text split and one part returned, or the whole
\* text returned.
Success(r) ==
  LET indentedList == RenderText(r.lines) IN
    IF req.rev = "levels" THEN Whole(r, Truncate(indentedList))
    ELSE IF TLen(indentedList) > SplitOver(req.rev) THEN
      LET parts == SplitTextIntoParts(indentedList, MaxSizeOf(req.rev))
          totalParts == Len(parts)
          requestedPart == RequestedPart(req.part, totalParts)
      IN  [kind |-> "success", msg |-> "found", lines |-> r.lines,
           total |-> TotalBlocks(r),
           content |-> PartAt(parts, requestedPart),
           paginated |-> TRUE, total_parts |-> totalParts,
           current_part |-> requestedPart]
    ELSE Whole(r, indentedList)
Finish(result, events) ==
  /\ res' = result
  /\ h' = [h EXCEPT !.pc = "done", !.events = events]
\* catch (error): a query or resolveRefs threw inside the try; queries are
\* the remote queries issued up to then.
Caught(queries) ==
  /\ res' = Failure("error")
  /\ h' = [h EXCEPT !.pc = "done", !.queries = queries, !.threw = TRUE]

\* if (!parent_uid && !child_uid)
\* catch (error): a call of resolveRefs threw inside the try; events are the
\* calls made up to then.
CaughtRefs(queries, events) ==
  /\ res' = Failure("error")
  /\ h' = [h EXCEPT !.pc = "done", !.queries = queries, !.threw = TRUE,
                    !.refsFailed = TRUE, !.events = events]

\* if (!parent_uid && !child_uid)
NeitherSupplied_never(r) == FALSE
NeitherSupplied(r) == r.parent_uid = 0 /\ r.child_uid = 0
\* if (parent_uid) ... else (if (child_uid)) ...: the first query's step.
Route ==
  IF req.parent_uid # 0
    THEN (IF req.rev = "levels" THEN "rootQuery" ELSE "pull")
    ELSE "childQuery"

\* execute(), down to the first remote call: the params and the anchor check.
T_Start ==
  /\ h.pc = "start"
  /\ LET eff == EffectiveMaxDepth(req.rev, req.max_depth) IN
       IF NeitherSupplied(req)
         THEN /\ res' = Failure("neither")
              /\ h' = [pc |-> "done", eff |-> eff, queries |-> <<>>,
                       threw |-> FALSE, events |-> <<>>,
                       refsFailed |-> FALSE]
         ELSE /\ res' = res
              /\ h' = [pc |-> IF req.rev = "levels" /\ req.page_title_uid
                                THEN "pageLookup" ELSE Route,
                       eff |-> eff, queries |-> <<>>, threw |-> FALSE,
                       events |-> <<>>, refsFailed |-> FALSE]
  /\ UNCHANGED <<graph, req, schedVars>>

\* part_001: targetPageUid = await SearchUtils.findPageByTitleOrUid(...),
\* before any try: the lookup returns, or its exception leaves execute().
T_PageLookup ==
  /\ h.pc = "pageLookup"
  /\ \E ok \in BOOLEAN :
       IF ~ok THEN
         /\ res' = Rejected
         /\ h' = [h EXCEPT !.pc = "done", !.queries = Append(@, "page"),
                           !.threw = TRUE]
       ELSE
         /\ res' = res
         /\ h' = [h EXCEPT !.pc = Route, !.queries = Append(@, "page")]
  /\ UNCHANGED <<graph, req, schedVars>>

\* The pull query of the nested revisions: it fails, finds no block, or
\* returns the nested result.
T_Pull ==
  /\ h.pc = "pull"
  /\ \E ok \in BOOLEAN :
       IF ~ok THEN
         Caught(Append(h.queries, "pull"))
       ELSE IF req.parent_uid \notin Blocks THEN
         /\ res' = NotFound(req.parent_uid)
         /\ h' = [h EXCEPT !.pc = "done", !.queries = Append(@, "pull")]
       ELSE
         /\ res' = res
         /\ h' = [pc |-> "tree", eff |-> h.eff,
                  queries |-> Append(h.queries, "pull"), threw |-> FALSE,
                  events |-> <<>>, refsFailed |-> FALSE,
                  raw |-> PullNode(req.parent_uid, 1, BuildPullPattern(h.eff))]
  /\ UNCHANGED <<graph, req, schedVars>>

\* processTree on the pull result; an exception of resolveRefs, in any of
\* its batches, is caught.
T_ProcessTree ==
  /\ h.pc = "tree"
  /\ LET root == IF req.rev = "norm" THEN NormalizeBlock(h.raw)
                 ELSE CastBlockNode(h.raw)
         r    == ProcessTree(<<root>>, FirstLevel(req.rev), h.eff, 0)
     IN  \/ Finish(Success(r), r.events)
         \/ \E e \in BatchEnds(r.events) :
              CaughtRefs(h.queries, SubSeq(r.events, 1, e))
  /\ UNCHANGED <<graph, req, schedVars>>

NoKids == [u \in Blocks |-> <<>>]
NoDepths == [u \in Blocks |-> NoTime]

\* Level by level: the root block's content.
T_RootQuery ==
  /\ h.pc = "rootQuery"
  /\ \E ok \in BOOLEAN :
       IF ~ok THEN
         Caught(Append(h.queries, "root"))
       ELSE IF req.parent_uid \notin Blocks THEN
         /\ res' = NotFound(req.parent_uid)
         /\ h' = [h EXCEPT !.pc = "done", !.queries = Append(@, "root")]
       ELSE
         \/ CaughtRefs(Append(h.queries, "root"),
                       ResolveAll(<<req.parent_uid>>))
         \/ /\ res' = res
            /\ h' = [pc |-> "directChildren", eff |-> h.eff,
                     queries |-> Append(h.queries, "root"), threw |-> FALSE,
                     events |-> ResolveAll(<<req.parent_uid>>),
                     refsFailed |-> FALSE,
                     kids |-> NoKids,
                     depth |-> [NoDepths EXCEPT ![req.parent_uid] = 0],
                     frontier |-> <<>>, next |-> <<>>, i |-> 1,
                     currentDepth |-> 0]
  /\ UNCHANGED <<graph, req, schedVars>>

\* while (currentParents.length > 0 && currentDepth < effectiveMaxDepth)
LoopOn(frontier, currentDepth, eff) ==
  Len(frontier) > 0 /\ currentDepth < eff

RECURSIVE SetDepths(_, _, _)
SetDepths(depth, nodes, d) ==
  IF nodes = <<>> THEN depth
  ELSE SetDepths([depth EXCEPT ![Head(nodes)] = d], Tail(nodes), d)

\* Level by level: the root's direct children, attached at depth 1.
T_DirectChildren ==
  /\ h.pc = "directChildren"
  /\ \E ok \in BOOLEAN :
       IF ~ok THEN
         Caught(Append(h.queries, "directChildren"))
       ELSE
         LET directNodes == SortedChildren(req.parent_uid)
             fetched     == ChildRows(req.parent_uid)
         IN
           \/ /\ Len(fetched) > 0
              /\ CaughtRefs(Append(h.queries, "directChildren"),
                            h.events \o ResolveAll(fetched))
           \/ /\ res' = res
              /\ h' = [h EXCEPT
                   !.queries = Append(@, "directChildren"),
                   !.events = @ \o ResolveAll(fetched),
                   !.kids = [@ EXCEPT ![req.parent_uid] = directNodes],
                   !.depth = SetDepths(@, directNodes, 1),
                   !.frontier = directNodes, !.next = <<>>, !.i = 1,
                   !.currentDepth = 1,
                   !.pc = IF h.eff > 1 /\ LoopOn(directNodes, 1, h.eff)
                            THEN "children" ELSE "render"]
  /\ UNCHANGED <<graph, req, schedVars>>

\* Level by level: the children of one parent of the current level; after
\* the level's last parent, the next level.
T_Children ==
  /\ h.pc = "children"
  /\ \E ok \in BOOLEAN :
       IF ~ok THEN
         Caught(Append(h.queries, "children"))
       ELSE
         LET parent     == h.frontier[h.i]
             childNodes == SortedChildren(parent)
             next       == h.next \o childNodes
             last       == h.i = Len(h.frontier)
             fetched    == ChildRows(parent)
         IN
           \/ /\ Len(fetched) > 0
              /\ CaughtRefs(Append(h.queries, "children"),
                            h.events \o ResolveAll(fetched))
           \/ /\ res' = res
              /\ h' = [h EXCEPT
                   !.queries = Append(@, "children"),
                   !.events = @ \o ResolveAll(fetched),
                   !.kids = [@ EXCEPT ![parent] = childNodes],
                   !.depth = SetDepths(@, childNodes, h.currentDepth + 1),
                   !.frontier = IF last THEN next ELSE @,
                   !.next = IF last THEN <<>> ELSE next,
                   !.i = IF last THEN 1 ELSE @ + 1,
                   !.currentDepth = IF last THEN @ + 1 ELSE @,
                   !.pc = IF last /\ ~LoopOn(next, h.currentDepth + 1, h.eff)
                            THEN "render" ELSE "children"]
  /\ UNCHANGED <<graph, req, schedVars>>

\* Level by level: the indented list and the block count.
T_Render ==
  /\ h.pc = "render"
  /\ LET lines ==
           <<Line(0, req.parent_uid, ResolveRefs(Str(req.parent_uid)))>>
             \o GenerateIndentedList(h.kids, h.kids[req.parent_uid], 1)
     IN  Finish(Success([lines |-> lines,
                         total |-> CountNodes(h.kids, req.parent_uid)]),
                h.events \o Emits(lines))
  /\ UNCHANGED <<graph, req, schedVars>>

\* ---- ancestor mode
\* The ancestors of block u, the nearest first.
RECURSIVE AncestorsOf(_)
AncestorsOf(u) ==
  IF graph.parent[u] = 0 THEN <<>>
  ELSE <<graph.parent[u]>> \o AncestorsOf(graph.parent[u])
\* (get-else $ ?b :block/path-length 1): no block carries the attribute.
PathLength(u) == 1
\* The rows [uid, string, depth] of the ancestor query, in the order the
\* remote store returns them.
AncestorRows(u) ==
  LET S   == {AncestorsOf(u)[i] : i \in 1..Len(AncestorsOf(u))}
      asc == AscSeq(S)
      ret == IF graph.retDesc THEN Reverse(asc) ELSE asc
  IN  [i \in 1..Len(ret) |-> [uid |-> ret[i], depth |-> PathLength(ret[i])]]
\* rawAncestors.sort((a, b) => a[2] - b[2])   (stable)
RECURSIVE SortByDepth(_)
SortByDepth(rows) ==
  IF rows = <<>> THEN <<>>
  ELSE LET s == SortByDepth(SubSeq(rows, 1, Len(rows) - 1))
           r == rows[Len(rows)]
           k == Cardinality({i \in 1..Len(s) : s[i].depth <= r.depth})
       IN  SubSeq(s, 1, k) \o <<r>> \o SubSeq(s, k + 1, Len(s))
\* .slice(0, Math.max(0, effectiveMaxDepth - 1))
SliceCount_all(eff) == NBlocks
SliceCount(eff) == Max(0, eff - 1)

\* The child block's string, in every revision the first query of the mode.
T_ChildQuery ==
  /\ h.pc = "childQuery"
  /\ \E ok \in BOOLEAN :
       IF ~ok THEN
         Caught(Append(h.queries, "child"))
       ELSE IF req.child_uid \notin Blocks THEN
         /\ res' = NotFound(req.child_uid)
         /\ h' = [h EXCEPT !.pc = "done", !.queries = Append(@, "child")]
       ELSE
         \/ CaughtRefs(Append(h.queries, "child"),
                       ResolveAll(<<req.child_uid>>))
         \/ /\ res' = res
            /\ h' = [pc |-> IF req.rev = "main" THEN "ancestorQuery"
                            ELSE IF req.rev = "levels" \/ 0 < h.eff
                              THEN "parentQuery"
                            ELSE "ancestorsDone",
                     eff |-> h.eff, queries |-> Append(h.queries, "child"),
                     threw |-> FALSE,
                     events |-> ResolveAll(<<req.child_uid>>),
                     refsFailed |-> FALSE,
                     ancestors |-> <<>>, currentUid |-> req.child_uid,
                     currentDepth |-> 0]
  /\ UNCHANGED <<graph, req, schedVars>>

\* The single line of a block without parents, returned by part_001 as soon
\* as the direct parent's query comes back empty.
OnlyChild ==
  LET l == <<Line(0, req.child_uid, ResolveRefs(Str(req.child_uid)))>>
  IN  Whole([lines |-> l, total |-> 1], RenderText(l))

\* The parent of the current block: part_002's loop, and part_001's direct
\* parent query followed by its loop.
T_ParentQuery ==
  /\ h.pc = "parentQuery"
  /\ \E ok \in BOOLEAN :
       IF ~ok THEN
         Caught(Append(h.queries, "parent"))
       ELSE IF graph.parent[h.currentUid] = 0 THEN
         IF req.rev = "levels" /\ h.ancestors = <<>>
           THEN /\ res' = OnlyChild
                /\ h' = [h EXCEPT !.pc = "done",
                                  !.queries = Append(@, "parent"),
                                  !.events = @ \o Emits(OnlyChild.lines)]
           ELSE /\ res' = res
                /\ h' = [h EXCEPT !.pc = "ancestorsDone",
                                  !.queries = Append(@, "parent")]
       ELSE
         \/ CaughtRefs(Append(h.queries, "parent"),
                       h.events \o ResolveAll(<<graph.parent[h.currentUid]>>))
         \/ /\ res' = res
            /\ h' = [h EXCEPT
                 !.queries = Append(@, "parent"),
                 !.events = @ \o ResolveAll(<<graph.parent[h.currentUid]>>),
                 !.ancestors = Append(@, graph.parent[h.currentUid]),
                 !.currentUid = graph.parent[h.currentUid],
                 !.currentDepth = @ + 1,
                 !.pc = IF h.currentDepth + 1 < h.eff THEN "parentQuery"
                        ELSE "ancestorsDone"]
  /\ UNCHANGED <<graph, req, schedVars>>

\* Main revision: the one query for all ancestors, sorted and sliced.
T_AncestorQuery ==
  /\ h.pc = "ancestorQuery"
  /\ \E ok \in BOOLEAN :
       IF ~ok THEN
         Caught(Append(h.queries, "ancestors"))
       ELSE
         LET sorted == SortByDepth(AncestorRows(req.child_uid))
             kept   == SubSeq(sorted, 1, Min(Len(sorted), SliceCount(h.eff)))
             uids   == [i \in 1..Len(kept) |-> kept[i].uid]
         IN
           \/ /\ Len(kept) > 0
              /\ CaughtRefs(Append(h.queries, "ancestors"),
                            h.events \o ResolveAll(uids))
           \/ /\ res' = res
              /\ h' = [h EXCEPT
                   !.pc = "ancestorsDone",
                   !.queries = Append(@, "ancestors"),
                   !.events = @ \o ResolveAll(uids),
                   !.ancestors = [i \in 1..Len(kept) |-> kept[i].uid]]
  /\ UNCHANGED <<graph, req, schedVars>>

\* ancestors.reverse() in part_001 and part_002; the main revision renders
\* its sorted rows as they are.
RenderOrder_asCollected(rev, ancestors) == ancestors
RenderOrder(rev, ancestors) ==
  IF rev = "main" THEN ancestors ELSE Reverse(ancestors)
\* One line per ancestor, "  ".repeat(i) before it, then the child's line.
AncestorLines_noChild(list, child) ==
  [i \in 1..Len(list) |-> Line(i - 1, list[i], ResolveRefs(Str(list[i])))]
AncestorLines(list, child) ==
  [i \in 1..(Len(list) + 1) |->
     IF i <= Len(list) THEN Line(i - 1, list[i], ResolveRefs(Str(list[i])))
     ELSE Line(Len(list), child, ResolveRefs(Str(child)))]

\* The indented list of the chain and the result.
T_AncestorList ==
  /\ h.pc = "ancestorsDone"
  /\ LET list  == RenderOrder(req.rev, h.ancestors)
         lines == AncestorLines(list, req.child_uid)
     IN  Finish(Success([lines |-> lines, total |-> Len(list) + 1]),
                h.events \o Emits(lines))
  /\ UNCHANGED <<graph, req, schedVars>>

NextTree ==
  \/ T_Start
  \/ T_PageLookup
  \/ T_Pull
  \/ T_ProcessTree
  \/ T_RootQuery
  \/ T_DirectChildren
  \/ T_Children
  \/ T_Render
  \/ T_ChildQuery
  \/ T_ParentQuery
  \/ T_AncestorQuery
  \/ T_AncestorList

SpecTree == InitTree /\ [][NextTree]_vars

\* --------------------------------------------------- fetchPageByTitle
\* A title is a sequence of characters; a page is its title (titles are
\* unique in the store) and whether blocks hang under it.
TitleChars == {"a", "A", " "}
RECURSIVE TitlesOfLen(_)
TitlesOfLen(n) ==
  IF n = 0 THEN {<<>>}
  ELSE { Append(t, c) : t \in TitlesOfLen(n - 1), c \in TitleChars }
Titles == UNION { TitlesOfLen(n) : n \in 0..MaxTitleLen }
ToUpper(c) == IF c = "a" THEN "A" ELSE c
ToLower(c) == IF c = "A" THEN "a" ELSE c
\* title.toLowerCase()
ToLowerCase(t) == [i \in 1..Len(t) |-> ToLower(t[i])]
\* capitalizeWords(title), of tools/helpers/text: the first character of each
\* word in upper case.
CapitalizeWords(t) ==
  [i \in 1..Len(t) |->
     IF i = 1 \/ t[i - 1] = " " THEN ToUpper(t[i]) ELSE t[i]]
\* const variations = [title, capitalizeWords(title), title.toLowerCase()]
Variations(title) == <<title, CapitalizeWords(title), ToLowerCase(title)>>

PageRecs == { [title |-> t, hasBlocks |-> b] : t \in Titles \ {<<>>},
                                                b \in BOOLEAN }
RECURSIVE StoresOf(_)
StoresOf(n) ==
  IF n = 0 THEN {{}}
  ELSE StoresOf(n - 1)
         \cup UNION { { S \cup {p} :
                           p \in { r \in PageRecs :
                                    \A x \in S : x.title # r.title } } :
                       S \in StoresOf(n - 1) }
Stores == { S \in StoresOf(MaxPages) : Cardinality(S) <= MaxPages }
\* [?e :node/title variation]: is there a page of that title.
HasPage(v) == \E p \in graph.pages : p.title = v
PageOf(v) == CHOOSE p \in graph.pages : p.title = v

InitFetch ==
  /\ graph \in { [pages |-> S] : S \in Stores }
  /\ req \in { [title |-> t] : t \in Titles }
  /\ h = [pc |-> "start"]
  /\ res = NoResult
  /\ now = 0 /\ reservoir = RESERVOIR
  /\ nextRefresh = RESERVOIR_REFRESH_INTERVAL
  /\ queue = <<>> /\ running = {}
  /\ call = [c \in Calls |-> IdleCall]
  /\ hist = [dispatched |-> 0, window |-> 0, lastJob |-> 0,
             lastStart |-> NoTime]

\* fetchPageByTitle throws: its promise rejects with the error.
FetchThrew(msg) == [kind |-> "thrown", msg |-> msg, page |-> <<>>]
\* The string returned: the page's markdown, or `${title} (no content found)`.
FetchReturned(msg, page) == [kind |-> "returned", msg |-> msg, page |-> page]

\* if (!title) throw; the variations.
FP_Start ==
  /\ h.pc = "start"
  /\ IF req.title = <<>>
       THEN /\ res' = FetchThrew("title is required")
            /\ h' = [pc |-> "done", i |-> 0, uid |-> <<>>, searched |-> <<>>,
                     threw |-> FALSE, variations |-> <<>>]
       ELSE /\ res' = res
            /\ h' = [pc |-> "search", i |-> 1, uid |-> <<>>,
                     searched |-> <<>>, threw |-> FALSE,
                     variations |-> Variations(req.title)]
  /\ UNCHANGED <<graph, req, schedVars>>

\* One turn of for (const variation of variations): the search query, and
\* break when it gave a uid; after the last variation, the not-found error.
FP_Search ==
  /\ h.pc = "search"
  /\ \E ok \in BOOLEAN :
       LET v == h.variations[h.i] IN
         IF ~ok THEN
           /\ res' = FetchThrew("error")
           /\ h' = [h EXCEPT !.pc = "done", !.threw = TRUE,
                             !.searched = Append(@, v)]
         ELSE IF HasPage(v) THEN
           /\ res' = res
           /\ h' = [h EXCEPT !.pc = "blocks", !.uid = v,
                             !.searched = Append(@, v)]
         ELSE IF h.i < Len(h.variations) THEN
           /\ res' = res
           /\ h' = [h EXCEPT !.i = @ + 1, !.searched = Append(@, v)]
         ELSE
           /\ res' = FetchThrew("not found")
           /\ h' = [h EXCEPT !.pc = "done", !.searched = Append(@, v)]
  /\ UNCHANGED <<graph, req, schedVars>>

\* The title the blocks query is given: q(graph, blocksQuery,
\* [ancestorRule, title], limiter).
BlocksQueryTitle(title, uid) == title

\* The blocks query, the tree built from its rows and the markdown; no rows:
\* `${title} (no content found)`.
FP_Blocks ==
  /\ h.pc = "blocks"
  /\ \E ok \in BOOLEAN :
       LET t == BlocksQueryTitle(req.title, h.uid) IN
         IF ~ok THEN
           /\ res' = FetchThrew("error")
           /\ h' = [h EXCEPT !.pc = "done", !.threw = TRUE]
         ELSE IF HasPage(t) /\ PageOf(t).hasBlocks THEN
           /\ res' = FetchReturned("markdown", t)
           /\ h' = [h EXCEPT !.pc = "done"]
         ELSE
           /\ res' = FetchReturned("no content found", <<>>)
           /\ h' = [h EXCEPT !.pc = "done"]
  /\ UNCHANGED <<graph, req, schedVars>>

NextFetch ==
  \/ FP_Start
  \/ FP_Search
  \/ FP_Blocks

SpecFetch == InitFetch /\ [][NextFetch]_vars

\* ---------------------------------------------------------- createPage
\* rate-limiter.ts:31,32
PAGE_MAX_RETRIES == 8
INITIAL_RETRY_DELAY == 2000
\* const batchLimit = 10
BATCH_LIMIT == 10
\* The batches of for (let i = 0; i < content.length; i += batchLimit).
NBatches(n) == (n + BATCH_LIMIT - 1) \div BATCH_LIMIT
Batches(n) == 1..NBatches(n)
ContentLengths == {0, 1, BATCH_LIMIT, BATCH_LIMIT + 1, MaxContent}
\* new McpError(InternalError, `${prefix}: ${error.message}`), or
\* String(error) for a thrown value that is no Error.
McpWrap(prefix, e) ==
  [isError |-> TRUE,
   msg |-> prefix \o (IF e.isError THEN e.msg ELSE <<"thrown">>)]
\* What a call through the wrapper ends with: its value, or the error
\* schedule() throws (a rate-limit error once its own attempts are used up).
WrapperOutcomes == {[isError |-> FALSE, msg |-> <<"ok">>]} \cup Thrown
Ok(o) == o = [isError |-> FALSE, msg |-> <<"ok">>]

\* The remote store: whether the page exists, and how many times each batch
\* of blocks has been created under it.
InitCreate ==
  /\ graph \in { [pageExists |-> e, created |-> [b \in Batches(MaxContent) |-> 0]] :
                   e \in BOOLEAN }
  /\ req \in { [content |-> n] : n \in ContentLengths }
  /\ h = [pc |-> "find", attempt |-> 0, i |-> 1, delays |-> <<>>,
          again |-> [b \in Batches(MaxContent) |-> 0]]
  /\ res = NoResult
  /\ now = 0 /\ reservoir = RESERVOIR
  /\ nextRefresh = RESERVOIR_REFRESH_INTERVAL
  /\ queue = <<>> /\ running = {}
  /\ call = [c \in Calls |-> IdleCall]
  /\ hist = [dispatched |-> 0, window |-> 0, lastJob |-> 0,
             lastStart |-> NoTime]

\* return { success: true, uid: pageUid }
CP_Return ==
  /\ res' = [kind |-> "value", err |-> NoError]
  /\ h' = [h EXCEPT !.pc = "done"]
\* The operation restarts from its first statement.
Restart(i) == 1
\* The operation threw error: the catch block of retryWithBackoff. Not a
\* rate-limit error: rethrown. Otherwise the delay, attempt++, and the
\* operation again, or throw lastError after the last attempt.
CP_Throws(error) ==
  IF ~IsRateLimitError(error) THEN
    /\ res' = [kind |-> "error", err |-> error]
    /\ h' = [h EXCEPT !.pc = "done"]
  ELSE IF h.attempt + 1 < PAGE_MAX_RETRIES THEN
    /\ res' = res
    /\ h' = [h EXCEPT !.pc = "find", !.attempt = @ + 1,
                      !.i = Restart(h.i),
                      !.delays = Append(@, INITIAL_RETRY_DELAY
                                             * Pow2(h.attempt))]
  ELSE
    /\ res' = [kind |-> "error", err |-> error]
    /\ h' = [h EXCEPT !.pc = "done", !.attempt = @ + 1,
                      !.delays = Append(@, INITIAL_RETRY_DELAY
                                             * Pow2(h.attempt))]

\* After the page uid is known: if (content && content.length > 0).
AfterPage == IF req.content > 0 THEN "batch" ELSE "return"

\* const findResults = await q(...): outside any try of the operation.
CP_Find ==
  /\ h.pc = "find"
  /\ \E o \in WrapperOutcomes :
       IF ~Ok(o) THEN CP_Throws(o)
       ELSE /\ res' = res
            /\ h' = [h EXCEPT !.pc = IF graph.pageExists THEN AfterPage
                                     ELSE "create"]
  /\ UNCHANGED <<graph, req, schedVars>>

\* createRoamPage and the second find query, errors wrapped in
\* 'Failed to create page: ...'.
CP_Create ==
  /\ h.pc = "create"
  /\ \E o \in WrapperOutcomes, o2 \in WrapperOutcomes :
       IF ~Ok(o) THEN
         /\ CP_Throws(McpWrap(<<"Failed", "to", "create", "page:">>, o))
         /\ graph' = graph
       ELSE IF ~Ok(o2) THEN
         /\ CP_Throws(McpWrap(<<"Failed", "to", "create", "page:">>, o2))
         /\ graph' = [graph EXCEPT !.pageExists = TRUE]
       ELSE
         /\ res' = res
         /\ h' = [h EXCEPT !.pc = AfterPage]
         /\ graph' = [graph EXCEPT !.pageExists = TRUE]
  /\ UNCHANGED <<req, schedVars>>

\* One turn of the batch loop: batchActions for batch i, errors wrapped in
\* 'Failed to add content to page: ...'.
CP_Batch ==
  /\ h.pc = "batch"
  /\ \E o \in WrapperOutcomes :
       LET again == [h.again EXCEPT ![h.i] =
                       IF graph.created[h.i] > 0 THEN @ + 1 ELSE @]
       IN
       IF ~Ok(o) THEN
         /\ CP_Throws(McpWrap(<<"Failed", "to", "add", "content", "to",
                               "page:">>, o))
         /\ graph' = graph
       ELSE
         /\ res' = res
         /\ graph' = [graph EXCEPT !.created[h.i] = @ + 1]
         /\ h' = [h EXCEPT !.again = again,
                           !.i = @ + 1,
                           !.pc = IF h.i < NBatches(req.content)
                                    THEN "batch" ELSE "return"]
  /\ UNCHANGED <<req, schedVars>>

CP_Done ==
  /\ h.pc = "return"
  /\ CP_Return
  /\ UNCHANGED <<graph, req, schedVars>>

NextCreate ==
  \/ CP_Find
  \/ CP_Create
  \/ CP_Batch
  \/ CP_Done

SpecCreate == InitCreate /\ [][NextCreate]_vars

\* ------------------------------------------- the scheduler, for progress
\* The scheduler with time unbounded: the timers are kept relative to the
\* present instant, so the clock reads 0 throughout and every pending timer
\* comes closer by the time that passes.
Elapse ==
  /\ \A d \in Deadlines : d > now
  /\ \E t \in Deadlines :
       /\ \A d \in Deadlines : t <= d
       /\ nextRefresh' = nextRefresh - (t - now)
       /\ call' = [c \in Calls |->
                     IF call[c].pc = "backoff"
                       THEN [call[c] EXCEPT !.wake = @ - (t - now)]
                       ELSE call[c]]
       /\ hist' = [hist EXCEPT !.lastStart =
                     IF @ = NoTime THEN NoTime
                     ELSE Max(@ - (t - now), now - MIN_TIME)]
  /\ UNCHANGED <<now, reservoir, queue, running, treeVars>>

\* The calls of schedule(): on the global limiter or on a tool limiter, the
\* underlying call rejecting with a rate-limit error or with another error.
LiveLimiters == {0, 1}
LiveThrown ==
  { [isError |-> TRUE, msg |-> m] :
      m \in { <<"Too", "many", "requests", "-", "try", "later">>,
              <<"Network", "error">> } }

InitLive ==
  /\ Init
  /\ reservoir \in {RESERVOIR, 0}

NextLive ==
  \/ \E c \in Calls, l \in LiveLimiters : Submit(c, l)
  \/ \E c \in Calls : ToolRun(c)
  \/ Dispatch
  \/ \E c \in Calls : Succeed(c)
  \/ \E c \in Calls, e \in LiveThrown : Fail(c, e)
  \/ \E c \in Calls : Wake(c)
  \/ Refresh
  \/ Elapse

\* Every underlying remote call settles; the limiters run what they can; the
\* timers (backoff, reservoir refresh) fire; time passes.
Fairness ==
  /\ \A c \in Calls :
       WF_vars(Succeed(c) \/ \E e \in LiveThrown : Fail(c, e))
  /\ \A c \in Calls : WF_vars(ToolRun(c))
  /\ \A c \in Calls : WF_vars(Wake(c))
  /\ WF_vars(Dispatch)
  /\ WF_vars(Refresh)
  /\ WF_vars(Elapse)

SpecLive == InitLive /\ [][NextLive]_vars /\ Fairness

\* ------------------------------------------------------------- the claims
WrapperCalls == {c \in Calls : call[c].route = "wrapper"}
Settled(c) == call[c].pc \in {"resolved", "rejected"}

\* The messages of Messages that contain 'Too many requests' or 'rate limit'.
QuotaMessages ==
  { <<"Too", "many", "requests", "-", "try", "later">>,
    <<"API", "rate", "limit", "exceeded">> }
IsQuota(err) == err.isError /\ err.msg \in QuotaMessages

RECURSIVE SumTries(_)
SumTries(S) ==
  IF S = {} THEN 0
  ELSE LET c == CHOOSE x \in S : TRUE IN call[c].tries + SumTries(S \ {c})

\* C1: of the calls submitted through schedule() on the global limiter, no
\* two underlying remote calls are in flight at the same time.
C1_NoOverlapOnGlobal ==
  Cardinality({c \in WrapperInFlight : call[c].limiter = 0}) <= 1
\* A retried call waits in the queue, with reservoir left, while another
\* call of the global limiter is in flight.
C1_Witness ==
  \E c, d \in WrapperCalls :
    /\ call[c].limiter = 0 /\ call[d].limiter = 0
    /\ call[c].pc = "running"
    /\ call[d].pc = "queued" /\ call[d].attempt >= 1
    /\ reservoir >= 1

\* C2: every remote query of IndentedHierarchyHandler.execute is dispatched
\* through the limiter: whatever is in flight at the remote store holds a
\* slot of the global limiter.
C2_AllQueriesScheduled == InFlight \subseteq running

\* C3: calls made through tool limiters and calls made on the global limiter
\* share the one quota: at most one of them is in flight, each one in flight
\* holds the global limiter's slot, and each attempt drew on the reservoir.
C3_ToolLimitersFunnel ==
  /\ Cardinality(WrapperInFlight) <= 1
  /\ WrapperInFlight = running
  /\ SumTries(WrapperCalls) = hist.dispatched
\* A call of a tool limiter is in flight while a call of another limiter
\* waits in the global queue with reservoir left.
C3_Witness ==
  \E c, d \in WrapperCalls :
    /\ call[c].limiter >= 1 /\ call[d].limiter # call[c].limiter
    /\ call[c].pc = "running" /\ call[d].pc = "queued"
    /\ reservoir >= 1

\* C4: a call that met k < MAX_RETRIES quota rejections and then succeeded
\* returns the value, after exactly k delays: BASE_RETRY_DELAY first, each
\* later one twice the one before.
C4_BackoffThenSuccess ==
  \A c \in WrapperCalls :
    call[c].pc = "resolved" =>
      LET k == call[c].fails IN
        /\ k < MAX_RETRIES
        /\ call[c].quotaFails = k
        /\ call[c].tries = k + 1
        /\ call[c].outcome = Returned
        /\ Len(call[c].delays) = k
        /\ k >= 1 => call[c].delays[1] = BASE_RETRY_DELAY
        /\ \A i \in 2..k : call[c].delays[i] = 2 * call[c].delays[i - 1]
C4_Witness ==
  \E c \in WrapperCalls :
    call[c].pc = "resolved" /\ call[c].fails = MAX_RETRIES - 1

C6_RetryIffQuota ==
  \A c \in WrapperCalls :
    LET cr == call[c] IN
      /\ Len(cr.delays) = cr.quotaFails
      /\ cr.tries <= cr.quotaFails + 1
      /\ cr.pc = "backoff" => IsQuota(cr.lastError)
      /\ cr.attempt = cr.quotaFails - (IF cr.pc = "backoff" THEN 1 ELSE 0)
      /\ (cr.fails >= 1 /\ IsQuota(cr.lastError)) => cr.fails = cr.quotaFails
      /\ (cr.fails >= 1 /\ ~IsQuota(cr.lastError)) =>
           /\ cr.fails = cr.quotaFails + 1
           /\ cr.pc = "rejected"
           /\ cr.outcome = Threw(cr.lastError)
           /\ cr.lastError.at = cr.attempt
           /\ cr.tries = cr.fails
      /\ (cr.pc = "rejected" /\ cr.fails = cr.quotaFails) =>
           cr.quotaFails = MAX_RETRIES
\* A call that was retried for quota and then hit an error whose message
\* is not a quota rejection.
C6_Witness ==
  \E c \in WrapperCalls :
    /\ call[c].pc = "rejected" /\ call[c].quotaFails >= 1
    /\ call[c].lastError.msg = <<"Rate", "limit">>
    /\ call[c].tries = call[c].quotaFails + 1

\* C7: the reservoir never drops below 0, every dispatch (retries included)
\* takes one from it, and within a refresh interval at most RESERVOIR calls
\* are dispatched; only the refresh timer sets it back.
C7_Reservoir ==
  /\ reservoir >= 0
  /\ hist.window <= RESERVOIR
  /\ reservoir + hist.window = RESERVOIR_REFRESH_AMOUNT
  /\ SumTries(WrapperCalls) = hist.dispatched
  /\ hist.window >= hist.dispatched \/ now >= RESERVOIR_REFRESH_INTERVAL
\* The window's reservoir is used up, a retried job waits for the refresh.
C7_Witness ==
  /\ reservoir = 0 /\ hist.window = RESERVOIR /\ hist.dispatched >= 1
  /\ \E c \in WrapperCalls : call[c].pc = "queued" /\ call[c].attempt >= 1

IsDispatch == hist'.dispatched = hist.dispatched + 1
RECURSIVE DepthOf(_)
DepthOf(u) == IF graph.parent[u] = 0 THEN 0 ELSE 1 + DepthOf(graph.parent[u])
Pos(s, x) == CHOOSE i \in 1..Len(s) : s[i] = x
Rendered == res.kind = "success"
DescendantMode == req.parent_uid # 0
AncestorMode == req.parent_uid = 0 /\ req.child_uid # 0
Siblings(a, b) == a # b /\ graph.parent[a] = graph.parent[b]

\* C9: for every requested max_depth d, d <= 0 included, every rendered node
\* of a descendant traversal lies at depth <= min(d, ceiling) below the anchor
\* (the anchor at depth 0), and every rendered node other than the anchor
\* follows its parent's line at exactly the parent's depth + 1.
C9_DepthBounded ==
  (Rendered /\ DescendantMode) =>
    \A i \in 1..Len(res.lines) :
      LET l == res.lines[i] IN
        /\ l.indent = DepthOf(l.id)
        /\ l.indent <= Min(req.max_depth, Ceiling(req.rev))
        /\ l.id # req.parent_uid =>
             \E j \in 1..(i - 1) :
               /\ res.lines[j].id = graph.parent[l.id]
               /\ res.lines[j].indent + 1 = l.indent

\* C10: in every sibling group of a descendant traversal the lines come in
\* ascending order, whatever order the remote store returned the children
\* in, and siblings of equal order keep the order they were returned in.
C10_SiblingsAscending ==
  (Rendered /\ DescendantMode) =>
    \A i, j \in 1..Len(res.lines) :
      LET a == res.lines[i].id
          b == res.lines[j].id
      IN  (i < j /\ Siblings(a, b)) =>
            /\ graph.order[a] <= graph.order[b]
            /\ graph.order[a] = graph.order[b] =>
                 Pos(ChildRows(graph.parent[a]), a)
                   < Pos(ChildRows(graph.parent[a]), b)
\* max_depth = 2, and among the anchor's children two that the remote store
\* returned against their order and two that share an order.
C10_Witness ==
  /\ Rendered /\ DescendantMode
  /\ req.max_depth = 2
  /\ \E i, j \in 1..Len(res.lines) :
       LET a == res.lines[i].id
           b == res.lines[j].id
       IN  /\ i < j /\ Siblings(a, b) /\ graph.parent[a] = req.parent_uid
           /\ graph.order[a] < graph.order[b]
           /\ Pos(ChildRows(graph.parent[a]), b)
                < Pos(ChildRows(graph.parent[a]), a)
           /\ res.lines[i].indent = 1 /\ res.lines[j].indent = 1
  /\ \E i, j \in 1..Len(res.lines) :
       /\ i < j /\ Siblings(res.lines[i].id, res.lines[j].id)
       /\ graph.order[res.lines[i].id] = graph.order[res.lines[j].id]


\* ---- pagination claims
SplitReturned == h.pc = "returned"

\* C11: for every text longer than the split threshold, the parts of
\* splitTextIntoParts concatenated in index order, nothing added between
\* them, are the unsplit text: at every cut the parts so far followed by
\* the remaining text are the text, and the returned parts are all of it.
C11_RoundTrip ==
  /\ h.pc = "loop" => Cat(Join(h.parts), h.remainingText) = h.text
  /\ SplitReturned =>
       /\ Join(res.parts) = h.text
       /\ res.parts = SplitTextIntoParts(h.text, h.maxSize)
\* A text over the threshold returned in three parts or more, one cut made
\* at a newline and one made at maxSize for want of a newline.
C11_Witness ==
  /\ SplitReturned
  /\ TLen(h.text) > h.maxSize
  /\ Len(res.parts) >= 3
  /\ \E i \in 1..(Len(res.parts) - 1) :
       /\ TLen(res.parts[i]) < h.maxSize
       /\ res.parts[i + 1][1].c = NL
  /\ \E i \in 1..(Len(res.parts) - 1) :
       /\ TLen(res.parts[i]) = h.maxSize
       /\ res.parts[i + 1][1].c # NL


\* The unsplit serialization of a rendered result.
FullText == RenderText(res.lines)
\* C12: on a paginated result, whatever part is requested (below 1, above
\* total_parts, or in range), the request succeeds, current_part is the
\* request clamped into 1..total_parts, and the content is the part at that
\* index of the split serialization.
C12_PartClamped ==
  (h.pc = "done" /\ res.paginated) =>
    /\ Rendered
    /\ res.total_parts = Len(SplitTextIntoParts(FullText, MaxSizeOf(req.rev)))
    /\ res.current_part \in 1..res.total_parts
    /\ req.part < 1 => res.current_part = 1
    /\ req.part > res.total_parts => res.current_part = res.total_parts
    /\ req.part \in 1..res.total_parts => res.current_part = req.part
    /\ res.content
         = SplitTextIntoParts(FullText, MaxSizeOf(req.rev))[res.current_part]
\* A result of three parts asked for a part above the last one.
C12_Witness ==
  /\ h.pc = "done" /\ res.paginated
  /\ res.total_parts >= 3
  /\ req.part > res.total_parts
  /\ res.current_part = res.total_parts


\* ---- request and failure claims
Done == h.pc = "done"
Neither == req.parent_uid = 0 /\ req.child_uid = 0
\* The failure shape: success false, no matches, a message.
FailureShape ==
  /\ res.kind = "failure"
  /\ res.lines = <<>> /\ res.content = <<>> /\ ~res.paginated
DescendantSteps ==
  {"pull", "tree", "rootQuery", "directChildren", "children", "render"}
AncestorSteps == {"childQuery", "parentQuery", "ancestorQuery", "ancestorsDone"}

\* C13: one of parent_uid / child_uid selects the mode of a call, never
\* both modes; a request supplying neither is answered at once with the
\* failure shape, no remote call made.
C13_NeitherFails ==
  /\ Neither =>
       /\ h.pc \in {"start", "done"}
       /\ Done => (FailureShape /\ res.msg = "neither" /\ h.queries = <<>>)
  /\ DescendantMode => h.pc \notin AncestorSteps
  /\ AncestorMode => h.pc \notin DescendantSteps
C13_Witness == Neither /\ Done /\ FailureShape /\ h.queries = <<>>

\* The anchor of the request and the query that looks it up.
Anchor == IF DescendantMode THEN req.parent_uid ELSE req.child_uid
AnchorQuery ==
  IF AncestorMode THEN "child"
  ELSE IF req.rev = "levels" THEN "root" ELSE "pull"
\* C14: in both modes, an anchor uid that no block has gives the failure
\* shape with the not-found message, as the returned result, and the
\* anchor lookup is the last remote query of the call.
C14_NotFound ==
  (Done /\ ~Neither /\ Anchor \notin Blocks) =>
    /\ res.kind # "success"
    /\ ~h.threw => (FailureShape /\ res.msg = "notfound")
    /\ \A i \in 1..Len(h.queries) :
         h.queries[i] = AnchorQuery => i = Len(h.queries)
    /\ \A i \in 1..Len(h.queries) : h.queries[i] \in {"page", AnchorQuery}
C14_Witness ==
  /\ Done /\ AncestorMode /\ Anchor \notin Blocks
  /\ FailureShape /\ res.msg = "notfound"
  /\ h.queries = <<"child">>

\* ---- ancestor mode claims
EffectiveD == Min(req.max_depth, Ceiling(req.rev))
\* The ancestors rendered: every line but the last.
NAncestors == Len(res.lines) - 1
\* C15: ancestor mode with effective maximum depth D renders at most D - 1
\* ancestors, none when D <= 1, and fewer than D - 1 only when the chain
\* ends at a block with no parent; the result has at most D lines (the
\* child's own line when D <= 1).
C15_AncestorBound ==
  (Done /\ AncestorMode /\ Rendered) =>
    /\ NAncestors <= Max(0, EffectiveD - 1)
    /\ NAncestors < Max(0, EffectiveD - 1) =>
         NAncestors = Len(AncestorsOf(req.child_uid))
    /\ Len(res.lines) <= Max(1, EffectiveD)

\* C16: in ancestor mode the lines go from the farthest ancestor rendered
\* to the nearest, each two spaces deeper than the one before, and the last
\* line is the original block.
C16_FarthestFirst ==
  (Done /\ AncestorMode /\ Rendered) =>
    /\ \A i \in 1..NAncestors :
         /\ res.lines[i].id = AncestorsOf(req.child_uid)[NAncestors - i + 1]
         /\ res.lines[i].indent = i - 1
    /\ res.lines[Len(res.lines)].id = req.child_uid
    /\ res.lines[Len(res.lines)].indent = NAncestors

\* C17: ancestor traversal on an existing block without a parent succeeds
\* with the single line "- <content>\n", not indented, and a block count
\* of 1.
C17_NoParentSingleLine ==
  (Done /\ AncestorMode /\ ~h.threw /\ req.child_uid \in Blocks
     /\ graph.parent[req.child_uid] = 0) =>
    /\ Rendered
    /\ res.total = 1
    /\ Len(res.lines) = 1
    /\ res.lines[1].id = req.child_uid /\ res.lines[1].indent = 0
    /\ res.content
         = Cat(Cat(<<Run("-", 1), Run(" ", 1)>>, Body(req.child_uid)),
               <<Run(NL, 1)>>)
C17_Witness ==
  /\ Done /\ AncestorMode /\ Rendered
  /\ req.child_uid \in Blocks /\ graph.parent[req.child_uid] = 0
  /\ req.max_depth >= 2 /\ res.total = 1

\* C18: execute never throws: whatever fails inside it (a remote query, the
\* reference resolution, the page-title lookup), the call ends with a
\* returned result, the failure shape when something failed.
C18_NeverThrows ==
  Done =>
    /\ res.kind \in {"success", "failure"}
    /\ h.threw => FailureShape

\* ---- serialization claims
\* C19: the block count of a successful traversal is the number of nodes of
\* the full unsplit serialization, whichever part is returned.
C19_BlockCount ==
  (Done /\ Rendered) =>
    /\ res.total = Len(res.lines)
    /\ res.total = Cardinality({res.lines[i].id : i \in 1..Len(res.lines)})
C19_Witness ==
  /\ Done /\ Rendered /\ res.paginated
  /\ res.current_part >= 2
  /\ res.total >= 5 /\ res.total = Len(res.lines)

RECURSIVE CountChar(_, _)
CountChar(t, c) ==
  IF t = <<>> THEN 0
  ELSE (IF t[1].c = c THEN t[1].n ELSE 0) + CountChar(Tail(t), c)
\* C20: the serialization has one line per node, 2 * depth spaces then
\* "- " then the content, depth first, the children of a node right after
\* it; the text has as many lines as there are nodes, whatever the
\* contents.
C20_OneLinePerNode ==
  (Done /\ Rendered) =>
    /\ CountChar(FullText, NL) = Len(res.lines)
    /\ \A i \in 2..Len(res.lines) :
         /\ res.lines[i].indent <= res.lines[i - 1].indent + 1
         /\ DescendantMode =>
              \E j \in 1..(i - 1) :
                /\ res.lines[j].id = graph.parent[res.lines[i].id]
                /\ res.lines[j].indent + 1 = res.lines[i].indent
                /\ \A k \in (j + 1)..(i - 1) :
                     res.lines[k].indent > res.lines[j].indent


\* ---- fetchPageByTitle claims (checked under SpecFetch)
\* The variations of the requested title that are titles of pages, by index.
Resolving == {i \in 1..3 : HasPage(Variations(req.title)[i])}
FirstResolving == CHOOSE i \in Resolving : \A j \in Resolving : i <= j
\* C21: fetchPageByTitle tries the title as given, then with each word
\* capitalized, then in lower case, stops at the first of them that is a
\* page's title and returns the nested content of that page; it throws the
\* not-found error only when none of them is.
C21_FetchByVariation ==
  (Done /\ ~h.threw /\ req.title # <<>>) =>
    IF Resolving = {}
      THEN /\ res.kind = "thrown" /\ res.msg = "not found"
           /\ h.searched = Variations(req.title)
      ELSE /\ res.kind = "returned"
           /\ h.searched = SubSeq(Variations(req.title), 1, FirstResolving)
           /\ PageOf(Variations(req.title)[FirstResolving]).hasBlocks =>
                /\ res.msg = "markdown"
                /\ res.page = Variations(req.title)[FirstResolving]


\* ---- the two descendant strategies (checked under SpecTree)
\* The nested-pull strategy of search/indented-hierarchy-search.ts on the
\* graph, from the anchor, for the requested max_depth.
NestedTraversal(anchor, max_depth) ==
  LET eff == EffectiveMaxDepth("main", max_depth) IN
    ProcessTree(<<CastBlockNode(PullNode(anchor, 1, BuildPullPattern(eff)))>>,
                FirstLevel("main"), eff, 0)
\* C22: on the same graph, anchor and max_depth the level-by-level strategy
\* renders what the nested-pull strategy renders: the same nodes at the same
\* depths in the same order, and the same block count.
C22_StrategiesEquivalent ==
  (Done /\ Rendered /\ DescendantMode /\ req.rev = "levels"
        /\ graph.keys = "plain") =>
    /\ res.lines = NestedTraversal(req.parent_uid, req.max_depth).lines
    /\ res.total = NestedTraversal(req.parent_uid, req.max_depth).total


\* ---- the cuts of splitTextIntoParts (checked under SpecSplit)
\* The text the i-th part was cut from: what the parts before it left.
WindowOf(i) == Drop(h.text, TLen(Join(SubSeq(res.parts, 1, i - 1))))
\* C23: every part is non-empty and at most maxSize long; a part that is not
\* the last ends at the last newline at or before maxSize when that newline
\* lies at or after 0.8 * maxSize (the part stops right before the newline),
\* and is exactly maxSize long otherwise; a text of 12,000 characters split
\* with maxSize 5,000 gives exactly 3 parts.
C23_CutAtNewlineOrCeiling ==
  SplitReturned =>
    /\ \A i \in 1..Len(res.parts) :
         LET len == TLen(res.parts[i])
             nl  == LastIndexOf(WindowOf(i), NL, h.maxSize)
         IN  /\ len >= 1 /\ len <= h.maxSize
             /\ i < Len(res.parts) =>
                  IF nl # -1 /\ 5 * nl >= 4 * h.maxSize
                    THEN len = nl /\ CharAt(WindowOf(i), len) = NL
                    ELSE len = h.maxSize
    /\ (TLen(h.text) = ScenarioLength /\ h.maxSize = SPLIT_MAX_SIZE) =>
         Len(res.parts) = 3
\* The 12,000-character text split in three, its first part cut below maxSize
\* at a newline.
C23_Witness ==
  /\ SplitReturned
  /\ TLen(h.text) = ScenarioLength /\ h.maxSize = SPLIT_MAX_SIZE
  /\ Len(res.parts) = 3
  /\ TLen(res.parts[1]) < h.maxSize
  /\ res.parts[2][1].c = NL


\* ---- the reference resolver (checked under SpecTree)
ResolveCalls(u) ==
  {i \in 1..Len(h.events) : h.events[i] = <<"resolve", u>>}
EmitsOf(u) == {i \in 1..Len(h.events) : h.events[i] = <<"emit", u>>}
\* C24: in a traversal that renders, the resolver is called exactly once for
\* each rendered node and for no other, each call before the node's line is
\* appended; in a traversal where a call of the resolver fails the result is
\* the failure shape with no text, and no node is resolved a second time.
C24_ResolvedOncePerNode ==
  /\ (Done /\ Rendered) =>
       /\ \A k \in 1..Len(res.lines) :
            /\ Cardinality(ResolveCalls(res.lines[k].id)) = 1
            /\ Cardinality(EmitsOf(res.lines[k].id)) = 1
            /\ \A r \in ResolveCalls(res.lines[k].id) :
                 \A e \in EmitsOf(res.lines[k].id) : r < e
       /\ Len(h.events) = 2 * Len(res.lines)
  /\ (Done /\ h.refsFailed) =>
       /\ FailureShape
       /\ \A u \in Blocks : Cardinality(ResolveCalls(u)) <= 1
\* A rendered traversal of three nodes or more, each resolved before its line.
C24_Witness ==
  /\ Done /\ Rendered
  /\ Len(res.lines) >= 3
  /\ Len(h.events) = 2 * Len(res.lines)
  /\ h.events[1][1] = "resolve" /\ h.events[2][1] = "emit"
  /\ h.events[3][1] = "resolve"


\* ---- backoff and the limiter's slots (checked under Spec)
InQueue(c) == \E i \in 1..Len(queue) : queue[i] = c
\* C25: a call waiting out a backoff delay holds no slot of the limiter and
\* no place in its queue; a retried attempt waits in the queue like any new
\* job and, once dispatched, is one more job the limiter has run.
C25_BackoffHoldsNoSlot ==
  \A c \in WrapperCalls :
    /\ call[c].pc = "backoff" => c \notin running /\ ~InQueue(c)
    /\ (call[c].pc = "queued" /\ call[c].attempt > 0) =>
         InQueue(c) /\ c \notin running
    /\ (call[c].pc = "running" /\ call[c].attempt > 0) =>
         c \in running /\ call[c].tries = call[c].attempt + 1
\* One call is in its backoff delay while another holds the limiter's slot,
\* dispatched after the first one failed.
C25_Witness ==
  \E c \in WrapperCalls, d \in WrapperCalls :
    /\ c # d
    /\ call[c].pc = "backoff" /\ now < call[c].wake
    /\ call[d].pc = "running" /\ d \in running
    /\ hist.lastJob = d
    /\ call[d].tries = 1 /\ call[c].tries >= 1


\* C26: schedule() sleeps only between attempts: a settled call that made n
\* attempts went through at most n - 1 backoff delays, the call rejected
\* after its last attempt included.
C26_DelaysBetweenAttempts ==
  \A c \in WrapperCalls :
    Settled(c) => Len(call[c].delays) <= call[c].tries - 1


\* ---- createPage (checked under SpecCreate)
\* C27: one call of createPage creates each batch of its content blocks at
\* most once: a batch the remote store has created is not submitted again
\* when a later batch fails with a rate-limit error and the operation is
\* retried.
C27_NoResubmission ==
  \A b \in Batches(req.content) :
    /\ h.again[b] = 0
    /\ graph.created[b] <= 1


\* ---- the anchor of a descendant traversal (checked under SpecTree)
\* C28: every successful descendant traversal includes the anchor, whatever
\* max_depth is: its first line is the anchor's resolved content at zero
\* indentation, and the reported block count is at least 1.
C28_AnchorIncluded ==
  (Done /\ Rendered /\ DescendantMode) =>
    /\ Len(res.lines) >= 1
    /\ res.lines[1].id = req.parent_uid
    /\ res.lines[1].indent = 0
    /\ res.lines[1].content = ResolveRefs(Str(req.parent_uid))
    /\ res.total >= 1


\* ---- progress (checked under SpecLive)
Submitted(c) == call[c].route = "wrapper" /\ ~Settled(c)
\* C29: every call submitted to schedule() eventually settles, with a value
\* or an error, given that every underlying call settles and the reservoir
\* is refilled: no call stays in the limiter's queue or in a backoff delay
\* for ever, and no call makes more than MAX_RETRIES attempts.
C29_EventuallySettles ==
  /\ \A c \in Calls : Submitted(c) ~> Settled(c)
  /\ [](\A c \in Calls : call[c].tries <= MAX_RETRIES)
\* Both calls have settled: one rejected after MAX_RETRIES attempts, the other
\* resolved on a retry.
C29_Witness ==
  \E c \in Calls, d \in Calls :
    /\ call[c].pc = "rejected" /\ call[c].tries = MAX_RETRIES
    /\ call[d].pc = "resolved" /\ call[d].tries >= 2

====
